---- MODULE Spec2Model ----
(***************************************************************************)
(* Model of the fuzzy-select widget of ranobe                              *)
(* (src/internal/select/select.rs, src/internal/select/theme.rs).          *)
(*                                                                         *)
(* One interaction is FuzzySelect::_interact_on.  The program blocks in    *)
(* term.read_key(); a state with pc = "read_key" is the program waiting    *)
(* there with a frame on the screen.  One step of the model is one whole   *)
(* loop iteration: the key is read, its match arm runs, paging.update and  *)
(* render.clear_preserve_prompt run, and the next frame is drawn.          *)
(*                                                                         *)
(* The module crate::internal::select::paging is used by select.rs but is  *)
(* not among the sources; the Paging* definitions follow the description   *)
(* of the Paging Manager and the way select.rs calls it.  The matcher is   *)
(* the external crate fuzzy_matcher; FuzzyMatch follows its contract       *)
(* (subsequence match, score that favours prefix and contiguous matches).  *)
(*                                                                         *)
(* Labels are ASCII, so their byte length, character count and display     *)
(* width coincide.  A search term is a sequence of characters; position is *)
(* a byte offset into its UTF-8 encoding, as in the code, and one of the   *)
(* characters the user can type takes two bytes.  The prompt line is taken *)
(* to fit on one terminal row.                                             *)
(***************************************************************************)
EXTENDS Integers, Sequences, FiniteSets, TLC

-----------------------------------------------------------------------------
(* Bounds of the model *)

MaxItems == 2        \* number of candidates given to the widget
MaxQuery == 1        \* longest search term the user types

(* The terminal: term.size() is (rows, columns) *)

TermRows == 4
TermCols == 3

-----------------------------------------------------------------------------
(* Option<usize> *)

None == <<>>
Some(i) == <<i>>
IsSome(o) == Len(o) = 1
Unwrap(o) == o[1]

CeilDiv(a, b) == (a + b - 1) \div b

-----------------------------------------------------------------------------
(* Candidates, keys *)

LabelOfLen(n) == [i \in 1..n |-> IF i % 2 = 1 THEN "k" ELSE "j"]

\* titles; one that fits with its marker, one that fits only without the
\* marker, one that is wider than the terminal
Labels == {LabelOfLen(1), LabelOfLen(TermCols - 1), LabelOfLen(TermCols + 1)}

ItemLists == UNION {[1..n -> Labels] : n \in 0..MaxItems}

ControlChars == {"^A"}
\* a character outside ASCII, two bytes in UTF-8
WideChars == {"U+E9"}
PrintableChars == {"k", "j", "h", "l", "i", "q"} \cup WideChars
Chars == PrintableChars \cup ControlChars

SpecialKeys == {"Escape", "Enter", "Backspace", "ArrowUp", "BackTab",
                "ArrowDown", "Tab", "ArrowLeft", "ArrowRight", "Home"}

Special(k) == [key |-> k, chr |-> ""]
Char(c) == [key |-> "Char", chr |-> c]

Keys == {Special(k) : k \in SpecialKeys} \cup {Char(c) : c \in Chars}

is_ascii_control(c) == c \in ControlChars

\* String::len: the length in bytes
ByteLen(str) == Len(str) + Cardinality({i \in 1..Len(str) : str[i] \in WideChars})

\* str::is_char_boundary(idx)
is_char_boundary(str, idx) ==
    \E k \in 0..Len(str) : ByteLen(SubSeq(str, 1, k)) = idx

\* the number of characters before the byte offset idx, a char boundary
CharsBefore(str, idx) ==
    CHOOSE k \in 0..Len(str) : ByteLen(SubSeq(str, 1, k)) = idx

\* the arguments given to with_initial_text and to max_length
InitialTexts == {<<>>, <<"j">>, <<"U+E9">>}
MaxLengthVals == {1}

-----------------------------------------------------------------------------
(* fuzzy_matcher::skim::SkimMatcherV2::fuzzy_match(choice, pattern) *)

Embeddings(label, q) ==
    {p \in [1..Len(q) -> 1..Len(label)] :
        /\ \A i \in 1..Len(q) : label[p[i]] = q[i]
        /\ \A i \in 1..(Len(q) - 1) : p[i] < p[i + 1]}

EmbeddingScore(q, p) ==
    LET m == Len(q)
    IN  16 * m
        + (IF p[1] = 1 THEN 8 ELSE 0)
        + 4 * Cardinality({i \in 1..(m - 1) : p[i + 1] = p[i] + 1})
        - (p[m] - p[1] + 1 - m)

\* None when the pattern is no subsequence of the label, else Some(score);
\* the empty pattern matches everything with score 0.
FuzzyMatch(label, q) ==
    IF q = <<>> THEN Some(0)
    ELSE LET E == Embeddings(label, q)
         IN  IF E = {} THEN None
             ELSE Some(CHOOSE s \in {EmbeddingScore(q, p) : p \in E} :
                          \A p \in E : EmbeddingScore(q, p) <= s)

-----------------------------------------------------------------------------
(* filtered_list: the candidates that match, best score first.  An entry   *)
(* is the index (from 0) of the candidate in items.  sort_unstable_by      *)
(* leaves the order of equal scores open, so every descending order is a   *)
(* possible filtered_list.                                                 *)

Queries == UNION {[1..n -> PrintableChars] : n \in 0..MaxQuery}

\* the matcher's answer for every title and search term of the model
MatchTable ==
    [x \in Labels \X Queries |-> FuzzyMatch(x[1], x[2])] @@ <<>>

\* only the candidates whose title starts with the search term
Matching_prefix(its, q) ==
    {i \in 0..(Len(its) - 1) :
        /\ Len(its[i + 1]) >= Len(q)
        /\ SubSeq(its[i + 1], 1, Len(q)) = q}

Matching(its, q) ==
    {i \in 0..(Len(its) - 1) : IsSome(MatchTable[its[i + 1], q])}

ScoreOf(its, q, i) == Unwrap(MatchTable[its[i + 1], q])

FilteredLists(its, q) ==
    LET M == Matching(its, q)
        n == Cardinality(M)
    IN  {fl \in [1..n -> M] :
            /\ \A a, b \in 1..n : a # b => fl[a] # fl[b]
            /\ \A a \in 1..(n - 1) :
                   ScoreOf(its, q, fl[a]) >= ScoreOf(its, q, fl[a + 1])}

FilteredTable ==
    [x \in ItemLists \X Queries |-> FilteredLists(x[1], x[2])] @@ <<>>

-----------------------------------------------------------------------------
(* Paging (crate::internal::select::paging) *)

\* Paging::new(term, items_len, max_length): the capacity is the explicit
\* max_length less the two reserved rows, or else the terminal height less
\* the reserved rows.
PagingNew(items_len, max_len) ==
    LET capacity == IF IsSome(max_len) THEN Unwrap(max_len) - 2 ELSE TermRows - 2
    IN  [pages        |-> CeilDiv(items_len, capacity),
         current_page |-> 0,
         capacity     |-> capacity,
         active       |-> items_len > capacity]

\* Paging::update(cursor_pos)
PagingUpdate(pg, cursor_pos) ==
    [pg EXCEPT !.current_page = cursor_pos \div pg.capacity]

\* next_page that stops at the last page instead of wrapping
PagingNextPage_saturating(pg) ==
    [pg EXCEPT !.current_page =
        IF pg.current_page + 1 < pg.pages THEN pg.current_page + 1
                                          ELSE pg.current_page]

\* Paging::next_page(): the page after the move; the returned index is
\* current_page * capacity
PagingNextPage(pg) ==
    [pg EXCEPT !.current_page = (pg.current_page + 1) % pg.pages]

\* Paging::previous_page()
PagingPreviousPage(pg) ==
    [pg EXCEPT !.current_page = (pg.current_page - 1 + pg.pages) % pg.pages]

PageFirstIndex(pg) == pg.current_page * pg.capacity

-----------------------------------------------------------------------------
(* Terminal operations of one loop iteration.  S = [term, render]:         *)
(*   render = the counters of TermThemeRenderer,                           *)
(*   term.cursor_hidden = the cursor is hidden,                            *)
(*   term.lines  = terminal rows the frame on the screen occupies,         *)
(*   term.erased = rows erased between the frame before and this one.      *)

prefix_width == 2

Op(name, n) == [op |-> name, n |-> n]

\* rows a rendered item takes on the terminal: marker, blank, title
ItemRows(label) == CeilDiv(Len(label) + prefix_width, TermCols)

\* size_vec of _interact_on: the byte length of every candidate's title
SizeVec(its) == [i \in 1..Len(its) |-> Len(its[i])]

RECURSIVE OverflowRows(_, _)
\* the loop of clear_preserve_prompt: rows added to new_height
OverflowRows(size_vec, k) ==
    IF k = 0 THEN 0
    ELSE OverflowRows(size_vec, k - 1)
         + (IF size_vec[k] > TermCols
            THEN CeilDiv(size_vec[k] + prefix_width, TermCols) - 1
            ELSE 0)

\* the state after one terminal operation that succeeded
Apply(S, o) ==
    LET t == S.term
        r == S.render
    IN  CASE o.op = "hide_cursor" ->
               [S EXCEPT !.term.cursor_hidden = TRUE]
          [] o.op = "show_cursor" ->
               [S EXCEPT !.term.cursor_hidden = FALSE]
          [] o.op = "clear" ->                       \* TermThemeRenderer::clear
               LET n == r.height + r.prompt_height
               IN  [term   |-> [t EXCEPT !.erased = t.erased + n],
                    render |-> [height |-> 0, prompt_height |-> 0]]
          [] o.op \in {"prompt", "echo"} ->           \* write_formatted_prompt
               [term   |-> [t EXCEPT !.lines = 1],
                render |-> [height |-> 0, prompt_height |-> r.height + 1]]
          [] o.op = "item" ->                         \* write_formatted_line
               [term   |-> [t EXCEPT !.lines = t.lines + o.n],
                render |-> [r EXCEPT !.height = r.height + 1]]
          [] o.op = "clear_preserve_prompt" ->
               LET new_height == r.height + o.n
               IN  [term   |-> [t EXCEPT !.erased = new_height],
                    render |-> [r EXCEPT !.height = 0]]
          [] OTHER -> S                               \* flush, read_key, update

RECURSIVE Run(_, _, _)
\* the state after the first k operations of ops
Run(S, ops, k) == IF k = 0 THEN S ELSE Apply(Run(S, ops, k - 1), ops[k])

\* positions of filtered_list shown on the current page: skip, take
Visible(pg, fl) ==
    {i \in 0..(Len(fl) - 1) :
        /\ i >= pg.current_page * pg.capacity
        /\ i < pg.current_page * pg.capacity + pg.capacity}

RECURSIVE ItemOps(_, _, _, _)
ItemOps(its, pg, fl, i) ==
    IF i >= Len(fl) THEN <<>>
    ELSE (IF i \in Visible(pg, fl)
          THEN <<Op("item", ItemRows(its[fl[i + 1] + 1]))>>
          ELSE <<>>) \o ItemOps(its, pg, fl, i + 1)

\* the top of the loop: render.clear, the prompt, the page's items, flush
DrawOps(its, pg, fl) ==
    <<Op("clear", 0), Op("prompt", 0)>> \o ItemOps(its, pg, fl, 0)
        \o <<Op("flush", 0)>>

-----------------------------------------------------------------------------
(* State *)

VARIABLES
    items, default, report, clear, max_length, initial_text,  \* FuzzySelect
    input_mode,                                               \* FuzzySelect
    position, search_term, paging, render, sel,               \* _interact_on
    filtered_list,                                            \* this frame's
    term,                                                     \* the terminal
    pc,                                                       \* where the caller is
    result,                                                   \* what interact returned
    io_failed                          \* a terminal operation of this call failed

config == <<items, default, report, clear, max_length, initial_text>>
locals == <<position, search_term, paging, render, sel, filtered_list>>
vars == <<items, default, report, clear, max_length, initial_text, input_mode,
          position, search_term, paging, render, sel, filtered_list, term,
          pc, result, io_failed>>

Ok(v) == [kind |-> "Ok", val |-> v]
Err == [kind |-> "Err", val |-> None]
Panic == [kind |-> "Panic", val |-> None]
NoResult == [kind |-> "Running", val |-> None]

NoRender == [height |-> 0, prompt_height |-> 0]
NoPaging == [pages |-> 0, current_page |-> 0, capacity |-> 1, active |-> FALSE]

\* FuzzySelect::with_theme and the builder calls that follow it
Init ==
    /\ items \in ItemLists
    /\ default \in {None} \cup {Some(i) : i \in 0..(Len(items) - 1)}
    /\ clear \in BOOLEAN
    /\ report = clear        \* both on (with_theme) or both switched off
    /\ max_length \in {None} \cup {Some(v + 2) : v \in MaxLengthVals}
    /\ initial_text \in InitialTexts
    /\ input_mode = "Normal"
    /\ position = 0
    /\ search_term = <<>>
    /\ paging = NoPaging
    /\ render = NoRender
    /\ sel = None
    /\ filtered_list = <<>>
    /\ term = [cursor_hidden |-> FALSE, lines |-> 0, erased |-> 0]
    /\ pc = "idle"
    /\ result = [kind |-> "Idle", val |-> None]
    /\ io_failed = FALSE

-----------------------------------------------------------------------------
(* The match on (term.read_key()?, sel) *)

\* next_item! that stops at the first entry instead of wrapping
next_item_no_wrap(s, len) ==
    IF IsSome(s) THEN Some(IF Unwrap(s) = 0 THEN 0 ELSE Unwrap(s) - 1)
                 ELSE Some(len - 1)

\* next_item!
next_item(s, len) ==
    IF IsSome(s) THEN Some((Unwrap(s) - 1 + len) % len) ELSE Some(len - 1)

\* prev_item!
prev_item(s, len) ==
    IF IsSome(s) THEN Some((Unwrap(s) + 1) % len) ELSE Some(0)

\* position() with starts_with in place of eq
sel_string_pos_by_prefix(its, sel_string) ==
    LET P == {i \in 0..(Len(its) - 1) :
                 /\ Len(its[i + 1]) >= Len(sel_string)
                 /\ SubSeq(its[i + 1], 1, Len(sel_string)) = sel_string}
    IN  IF P = {} THEN None
        ELSE Some(CHOOSE i \in P : \A j \in P : i <= j)

\* self.items.iter().position(|item| item.title.eq(sel_string))
sel_string_pos_in_items(its, sel_string) ==
    LET P == {i \in 0..(Len(its) - 1) : its[i + 1] = sel_string}
    IN  IF P = {} THEN None
        ELSE Some(CHOOSE i \in P : \A j \in P : i <= j)

\* String::insert(idx, chr) and String::remove(idx); idx is a byte offset
\* from 0 that lies on a char boundary
Insert(str, idx, chr) ==
    LET k == CharsBefore(str, idx)
    IN  SubSeq(str, 1, k) \o <<chr>> \o SubSeq(str, k + 1, Len(str))
Remove(str, idx) ==
    LET k == CharsBefore(str, idx)
    IN  SubSeq(str, 1, k) \o SubSeq(str, k + 2, Len(str))

\* String::insert asserts idx <= len and is_char_boundary(idx)
InsertPanics(str, idx) == ~is_char_boundary(str, idx)

\* String::remove panics unless a character starts at idx
RemovePanics(str, idx) == idx >= ByteLen(str) \/ ~is_char_boundary(str, idx)

\* format_fuzzy_select_prompt slices search_term[0..cursor_pos] when
\* cursor_pos < search_term.len(); the slice panics off a char boundary
format_fuzzy_select_prompt_panics(str, cursor_pos) ==
    cursor_pos < ByteLen(str) /\ ~is_char_boundary(str, cursor_pos)

\* what an arm leaves behind when nothing it does fails: how the loop goes
\* on (out), the locals, the mode, and the terminal operations it made
Stay ==
    [out |-> "loop", val |-> None, ops |-> <<>>,
     sel |-> sel, search_term |-> search_term, position |-> position,
     input_mode |-> input_mode, paging |-> paging]

\* Escape that only leaves Editing and never cancels
EscapeArm_mode_only == [Stay EXCEPT !.input_mode = "Normal"]

\* the cancel path without term.show_cursor()
EscapeArm_no_show ==
    IF input_mode = "Normal"
    THEN [Stay EXCEPT !.out = "return", !.val = None,
                      !.ops = IF clear THEN <<Op("clear", 0), Op("flush", 0)>>
                                       ELSE <<>>]
    ELSE [Stay EXCEPT !.input_mode = "Normal"]

\* Escape that cancels in either mode
EscapeArm_always_cancel ==
    [Stay EXCEPT !.out = "return", !.val = None,
                 !.ops = (IF clear THEN <<Op("clear", 0), Op("flush", 0)>>
                                   ELSE <<>>)
                         \o <<Op("show_cursor", 0)>>]

\* the Escape arm
EscapeArm ==
    IF input_mode = "Normal"
    THEN [Stay EXCEPT !.out = "return", !.val = None,
                      !.ops = (IF clear THEN <<Op("clear", 0), Op("flush", 0)>>
                                        ELSE <<>>)
                              \o <<Op("show_cursor", 0)>>]
    ELSE [Stay EXCEPT !.input_mode = "Normal"]

\* the Enter arm
EnterArm ==
    IF input_mode = "Editing"
    THEN [Stay EXCEPT !.input_mode = "Normal"]
    ELSE IF filtered_list # <<>>
    THEN LET s == Unwrap(sel)
             cl == IF clear THEN <<Op("clear", 0)>> ELSE <<>>
         IN  IF s >= Len(filtered_list)
             THEN \* filtered_list[sel] is out of bounds
                  [Stay EXCEPT !.out = "panic", !.ops = cl]
             ELSE [Stay EXCEPT
                     !.out = "return",
                     !.val = sel_string_pos_in_items(items,
                                 items[filtered_list[s + 1] + 1]),
                     !.ops = cl \o (IF report THEN <<Op("echo", 0)>> ELSE <<>>)
                                \o <<Op("show_cursor", 0)>>]
    ELSE Stay

\* a character key that Editing mode drops
CharArm_ignored(chr) == Stay

\* the arm of a character key in Editing mode
CharArm(chr) ==
    IF InsertPanics(search_term, position)
    THEN [Stay EXCEPT !.out = "panic"]
    ELSE [Stay EXCEPT !.search_term = Insert(search_term, position, chr),
                      !.position = position + 1,
                      !.ops = <<Op("flush", 0)>>,
                      !.sel = Some(0)]

Arm(key) ==
    LET normal == input_mode = "Normal"
        len == Len(filtered_list)
        up == [Stay EXCEPT !.sel = next_item(sel, len), !.ops = <<Op("flush", 0)>>]
        down == [Stay EXCEPT !.sel = prev_item(sel, len), !.ops = <<Op("flush", 0)>>]
        left == [Stay EXCEPT !.paging = PagingPreviousPage(paging),
                             !.sel = Some(PageFirstIndex(PagingPreviousPage(paging)))]
        right == [Stay EXCEPT !.paging = PagingNextPage(paging),
                              !.sel = Some(PageFirstIndex(PagingNextPage(paging)))]
    IN  IF key.key = "Escape" THEN EscapeArm
        ELSE IF key = Char("i") /\ normal THEN [Stay EXCEPT !.input_mode = "Editing"]
        ELSE IF key.key \in {"ArrowUp", "BackTab"} /\ len # 0 THEN up
        ELSE IF key = Char("k") /\ normal /\ len # 0 THEN up
        ELSE IF key.key \in {"ArrowDown", "Tab"} /\ len # 0 THEN down
        ELSE IF key = Char("j") /\ normal /\ len # 0 THEN down
        ELSE IF key.key = "ArrowLeft" /\ paging.active THEN left
        ELSE IF key = Char("h") /\ normal /\ paging.active THEN left
        ELSE IF key.key = "ArrowRight" /\ paging.active THEN right
        ELSE IF key = Char("l") /\ normal /\ paging.active THEN right
        ELSE IF key.key = "Enter" /\ IsSome(sel) THEN EnterArm
        ELSE IF key.key = "Backspace" /\ ~normal /\ position > 0
             THEN IF RemovePanics(search_term, position - 1)
                  THEN [Stay EXCEPT !.out = "panic"]
                  ELSE [Stay EXCEPT !.position = position - 1,
                                    !.search_term = Remove(search_term, position - 1),
                                    !.ops = <<Op("flush", 0)>>]
        ELSE IF key.key = "Char" /\ ~normal /\ ~is_ascii_control(key.chr)
             THEN CharArm(key.chr)
        ELSE Stay

\* paging.update called with 0 whatever the selection
UpdateArg_zero(s) == 0

\* the argument of paging.update at the end of the loop body
UpdateArg(s) == IF IsSome(s) THEN Unwrap(s) ELSE 0

-----------------------------------------------------------------------------
(* Actions.  The locals of _interact_on are dropped when it returns, and   *)
(* the rows of the screen are no longer the widget's.                      *)

Return(res, hidden, mode) ==
    /\ pc' = IF res.kind = "Panic" THEN "panicked" ELSE "returned"
    /\ result' = res
    /\ term' = [cursor_hidden |-> hidden, lines |-> 0, erased |-> 0]
    /\ input_mode' = mode
    /\ position' = 0
    /\ search_term' = <<>>
    /\ paging' = NoPaging
    /\ render' = NoRender
    /\ sel' = None
    /\ filtered_list' = <<>>
    /\ UNCHANGED config

\* the terminal operations of _interact_on up to the first term.read_key()
InteractOps(fl) ==
    <<Op("hide_cursor", 0)>>
        \o DrawOps(items, PagingNew(Len(items), max_length), fl)

InteractStart ==
    [term |-> [term EXCEPT !.lines = 0, !.erased = 0], render |-> NoRender]

\* _interact_on up to the first term.read_key(), no terminal operation failing
Interact ==
    /\ pc \in {"idle", "returned"}
    /\ \E fl \in FilteredTable[items, initial_text] :
         LET ops == InteractOps(fl)
             S == Run(InteractStart, ops, Len(ops))
         IN  /\ pc' = "read_key"
             /\ result' = NoResult
             /\ position' = ByteLen(initial_text)
             /\ search_term' = initial_text
             /\ paging' = PagingNew(Len(items), max_length)
             /\ render' = S.render
             /\ sel' = default
             /\ filtered_list' = fl
             /\ term' = S.term
             /\ io_failed' = FALSE
             /\ UNCHANGED <<input_mode, config>>

\* the cursor after the first k operations of ops, none of them failing
HiddenAfter(ops, k) ==
    LET P == {i \in 1..k : ops[i].op \in {"hide_cursor", "show_cursor"}}
    IN  IF P = {} THEN term.cursor_hidden
        ELSE ops[CHOOSE i \in P : \A j \in P : j <= i].op = "hide_cursor"

\* the same, the f-th terminal operation failing: its ? returns the error
\* and the operations before it have happened
InteractFails ==
    /\ pc \in {"idle", "returned"}
    /\ LET ops == InteractOps(CHOOSE fl \in FilteredTable[items, initial_text] : TRUE)
       IN  \E hidden \in {HiddenAfter(ops, f - 1) : f \in 1..Len(ops)} :
             /\ Return(Err, hidden, input_mode)
             /\ io_failed' = TRUE

\* the terminal operations of one iteration of the loop, from
\* term.read_key() returning the key to the next term.read_key() or the
\* return; a is what the arm of the key leaves
IterationOps(a, fl) ==
    <<Op("read_key", 0)>> \o a.ops
        \o (IF a.out = "loop"
            THEN <<Op("update", 0),
                   Op("clear_preserve_prompt",
                      OverflowRows(SizeVec(items), Len(items)))>>
                 \o (IF format_fuzzy_select_prompt_panics(a.search_term, a.position)
                     THEN <<Op("clear", 0)>>      \* the prompt is never written
                     ELSE DrawOps(items,
                                  PagingUpdate(a.paging, UpdateArg(a.sel)), fl))
            ELSE <<>>)

\* one iteration of the loop in which no terminal operation fails
Press(key) ==
    /\ pc = "read_key"
    /\ LET a == Arm(key)
       IN  /\ Len(a.search_term) <= MaxQuery
           /\ \E fl \in FilteredTable[items, a.search_term] :
                LET ops == IterationOps(a, fl)
                    S == Run([term |-> term, render |-> render], ops, Len(ops))
                IN  IF a.out = "return"
                    THEN Return(Ok(a.val), S.term.cursor_hidden, a.input_mode)
                    ELSE IF \/ a.out = "panic"
                            \/ format_fuzzy_select_prompt_panics(a.search_term,
                                                                 a.position)
                    THEN Return(Panic, S.term.cursor_hidden, a.input_mode)
                    ELSE /\ pc' = "read_key"
                         /\ result' = NoResult
                         /\ position' = a.position
                         /\ search_term' = a.search_term
                         /\ paging' = PagingUpdate(a.paging, UpdateArg(a.sel))
                         /\ render' = S.render
                         /\ sel' = a.sel
                         /\ filtered_list' = fl
                         /\ term' = S.term
                         /\ input_mode' = a.input_mode
                         /\ UNCHANGED config

\* the result of a terminal operation dropped instead of returned by ?
PressFails_ignored(key) == Press(key) /\ io_failed' = TRUE

\* one iteration of the loop in which the f-th terminal operation fails:
\* its ? returns the error.  A failure of read_key (f = 1) comes before the
\* arm, every other one after the arm has set the mode.
PressFails(key) ==
    /\ pc = "read_key"
    /\ LET a == Arm(key)
       IN  /\ Len(a.search_term) <= MaxQuery
           /\ LET ops == IterationOps(a,
                            CHOOSE fl \in FilteredTable[items, a.search_term] : TRUE)
              IN  \E o \in {[hidden |-> HiddenAfter(ops, f - 1),
                             mode   |-> IF f = 1 THEN input_mode ELSE a.input_mode] :
                                f \in 1..Len(ops)} :
                    /\ Return(Err, o.hidden, o.mode)
                    /\ io_failed' = TRUE

\* the keys, no terminal operation failing
KeyEscape == Press(Special("Escape")) /\ UNCHANGED io_failed
KeyEnter == Press(Special("Enter")) /\ UNCHANGED io_failed
KeyBackspace == Press(Special("Backspace")) /\ UNCHANGED io_failed
KeyUp ==
    \E k \in {"ArrowUp", "BackTab"} : Press(Special(k)) /\ UNCHANGED io_failed
KeyDown ==
    \E k \in {"ArrowDown", "Tab"} : Press(Special(k)) /\ UNCHANGED io_failed
KeyLeft == Press(Special("ArrowLeft")) /\ UNCHANGED io_failed
KeyRight == Press(Special("ArrowRight")) /\ UNCHANGED io_failed
KeyChar == \E c \in Chars : Press(Char(c)) /\ UNCHANGED io_failed
KeyOther == Press(Special("Home")) /\ UNCHANGED io_failed

\* a terminal operation fails while some key is handled
IoError == \E key \in Keys : PressFails(key)

Next ==
    \/ Interact
    \/ InteractFails
    \/ KeyEscape
    \/ KeyEnter
    \/ KeyBackspace
    \/ KeyUp
    \/ KeyDown
    \/ KeyLeft
    \/ KeyRight
    \/ KeyChar
    \/ KeyOther
    \/ IoError

Spec == Init /\ [][Next]_vars

-----------------------------------------------------------------------------
(* Selection and commit *)

\* C1 (as stated): while the loop waits for a key, Selection = Some(i) only
\* with 0 <= i < FilteredList.len(), and Selection is None whenever the
\* FilteredList of the current query is empty.
C1_SelectionInRange ==
    pc = "read_key" =>
        /\ IsSome(sel) => Unwrap(sel) < Len(filtered_list)
        /\ filtered_list = <<>> => sel = None

\* C2 (as stated): in Normal mode with Selection = Some(p) and a non-empty
\* FilteredList, Enter (no terminal operation failing) ends the interaction
\* with a commit, Ok(Some(index)); it never faults.
C2_EnterCommits ==
    [][(/\ pc = "read_key"
        /\ input_mode = "Normal"
        /\ IsSome(sel)
        /\ filtered_list # <<>>
        /\ KeyEnter)
       => (pc' = "returned" /\ result'.kind = "Ok" /\ IsSome(result'.val))]_vars

DistinctLabels(its) ==
    \A i, j \in 1..Len(its) : i # j => its[i] # its[j]

\* C3: with pairwise distinct labels, a commit at filtered position p
\* returns Some(i) for the one i with items[i].title = filtered_list[p]'s
\* title, which is the candidate filtered_list[p] itself.
C3_CommitRoundTrip ==
    [][(/\ DistinctLabels(items)
        /\ pc = "read_key"
        /\ KeyEnter
        /\ result'.kind = "Ok")
       => (/\ IsSome(sel)
           /\ Unwrap(sel) < Len(filtered_list)
           /\ result'.val = Some(filtered_list[Unwrap(sel) + 1])
           /\ items[Unwrap(result'.val) + 1]
                = items[filtered_list[Unwrap(sel) + 1] + 1])]_vars

\* a commit of the second of two or more distinct candidates has returned
C3_Witness ==
    /\ pc = "returned"
    /\ DistinctLabels(items)
    /\ Len(items) >= 2
    /\ result = Ok(Some(1))

-----------------------------------------------------------------------------
(* Cancel, cursor, terminal failures *)

\* C4: Escape in Normal mode, from any state of the loop, ends the loop and
\* interact returns Ok(None); no candidate index is returned.  (An
\* iteration in which a terminal operation fails returns the error.)
C4_EscapeCancels ==
    [][(pc = "read_key" /\ input_mode = "Normal" /\ KeyEscape)
       => (pc' = "returned" /\ result' = Ok(None))]_vars

\* interact has returned the cancellation
C4_Witness == pc = "returned" /\ result = Ok(None)

\* C5: the cursor is hidden while the loop runs and visible whenever
\* interact has returned a commit (Some) or a cancel (None).
C5_CursorRestored ==
    /\ pc = "read_key" => term.cursor_hidden
    /\ (pc = "returned" /\ result.kind = "Ok") => ~term.cursor_hidden

\* a commit has returned and the cursor is visible
C5_Witness ==
    /\ pc = "returned"
    /\ result.kind = "Ok"
    /\ IsSome(result.val)
    /\ ~term.cursor_hidden

\* C6 (as stated): interact never returns an I/O error with the cursor
\* still hidden.
C6_CursorShownOnError ==
    (pc = "returned" /\ result.kind = "Err") => ~term.cursor_hidden

\* C7: once a terminal operation of the call has failed, interact has
\* returned the I/O error: the program is out of the loop (no key is read
\* and no frame drawn after the failure) and the result is neither a commit
\* nor a cancel.
C7_ErrorAborts ==
    io_failed => (pc = "returned" /\ result = Err /\ term.lines = 0)

\* interact has returned an I/O error
C7_Witness == io_failed /\ pc = "returned" /\ result = Err

-----------------------------------------------------------------------------
(* Navigation, erasing and paging *)

\* next_item! applied k times
RECURSIVE UpTimes(_, _, _)
UpTimes(s, len, k) == IF k = 0 THEN s ELSE UpTimes(next_item(s, len), len, k - 1)

\* prev_item! applied k times
RECURSIVE DownTimes(_, _, _)
DownTimes(s, len, k) ==
    IF k = 0 THEN s ELSE DownTimes(prev_item(s, len), len, k - 1)

\* C8 (as stated): in every state in which the loop waits for a key with a
\* non-empty FilteredList of length n and Selection = Some(s), n presses of
\* Up, and n presses of Down, bring Selection back to Some(s).  The query
\* does not change under these keys, so n stays the same over the presses.
C8_CyclicNavigation ==
    (pc = "read_key" /\ IsSome(sel) /\ filtered_list # <<>>) =>
        LET n == Len(filtered_list)
        IN  /\ UpTimes(sel, n, n) = sel
            /\ DownTimes(sel, n, n) = sel

\* C9 (as stated): from one frame to the next, the rows erased before the
\* new frame is drawn are exactly the rows the previous frame occupied, its
\* prompt row and the rows, wrapped ones included, of the items of the
\* visible page.
C9_EraseExact ==
    [][(pc = "read_key" /\ pc' = "read_key") => term'.erased = term.lines]_vars

\* C10: after the paging.update at the end of an iteration of the loop,
\* with an absent Selection counted as index 0, the index lies in the
\* current page: current_page * capacity <= index < (current_page + 1) *
\* capacity.
C10_PagingInvariant ==
    [][(pc = "read_key" /\ pc' = "read_key") =>
          LET i == IF IsSome(sel') THEN Unwrap(sel') ELSE 0
          IN  /\ paging'.current_page * paging'.capacity <= i
              /\ i < (paging'.current_page + 1) * paging'.capacity]_vars

\* an update has moved the page off the first one, to that of the selection
C10_Witness ==
    /\ pc = "read_key"
    /\ paging.current_page > 0
    /\ IsSome(sel)
    /\ Unwrap(sel) \div paging.capacity = paging.current_page

-----------------------------------------------------------------------------
(* The frame: page, order and content of the filtered list *)

\* C11 (as stated): in every frame on the screen, the first one included,
\* a Selection Some(i) is a position of the FilteredList inside the window
\* [current_page * capacity, (current_page + 1) * capacity) that the frame
\* renders, so one rendered row carries the marker.
C11_PageContainsSelection ==
    (pc = "read_key" /\ IsSome(sel)) =>
        Unwrap(sel) \in Visible(paging, filtered_list)

\* C12 (as stated): the FilteredList of every frame is in descending order
\* of score, and candidates of equal score are in the order they have in
\* items; with the empty search term it is all of items in their order.
C12_StableDescending ==
    pc = "read_key" =>
        \A a, b \in 1..Len(filtered_list) :
            a < b =>
                LET sa == Unwrap(FuzzyMatch(items[filtered_list[a] + 1], search_term))
                    sb == Unwrap(FuzzyMatch(items[filtered_list[b] + 1], search_term))
                IN  \/ sa > sb
                    \/ sa = sb /\ filtered_list[a] < filtered_list[b]

\* C13: the FilteredList of every frame holds exactly the candidates whose
\* title the matcher matches against the search term of that frame, each
\* of them once, and no other candidate.
C13_ExactlyTheMatches ==
    pc = "read_key" =>
        /\ {filtered_list[a] : a \in 1..Len(filtered_list)}
              = {i \in 0..(Len(items) - 1) :
                    IsSome(FuzzyMatch(items[i + 1], search_term))}
        /\ \A a, b \in 1..Len(filtered_list) :
              a # b => filtered_list[a] # filtered_list[b]

\* a frame whose search term keeps a candidate that contains it inside the
\* title and drops another one
C13_Witness ==
    /\ pc = "read_key"
    /\ search_term = <<"j">>
    /\ filtered_list # <<>>
    /\ Len(filtered_list) < Len(items)

-----------------------------------------------------------------------------
(* Keys of the two modes *)

\* C14 (as stated): 'q' pressed in Normal mode, no terminal operation
\* failing, ends the interaction and interact returns Ok(None), as Escape
\* does.
C14_QuitCancels ==
    [][(/\ pc = "read_key"
        /\ input_mode = "Normal"
        /\ Press(Char("q"))
        /\ UNCHANGED io_failed)
       => (pc' = "returned" /\ result' = Ok(None))]_vars

\* the paging state after a next-page key: the arm, then paging.update
\* with the index the arm has put into sel
PageAfterRight(pg) ==
    PagingUpdate(PagingNextPage(pg), PageFirstIndex(PagingNextPage(pg)))

\* the same for a previous-page key
PageAfterLeft(pg) ==
    PagingUpdate(PagingPreviousPage(pg), PageFirstIndex(PagingPreviousPage(pg)))

RECURSIVE RightTimes(_, _)
RightTimes(pg, k) == IF k = 0 THEN pg ELSE RightTimes(PageAfterRight(pg), k - 1)

RECURSIVE LeftTimes(_, _)
LeftTimes(pg, k) == IF k = 0 THEN pg ELSE LeftTimes(PageAfterLeft(pg), k - 1)

\* Scenario E: capacity 2 and 4 candidates
ScenarioE == PagingNew(4, Some(2 + 2))

\* C15: while paging is active with P pages, a next-page key moves the
\* paging state to PageAfterRight and a previous-page key to PageAfterLeft,
\* and from the page of any frame P next-page keys, P previous-page keys,
\* and a next-page key followed by a previous-page key, all lead back to
\* that page; so do two next-page keys in Scenario E.
C15_PageWrapAround ==
    [][(pc = "read_key" /\ paging.active /\ pc' = "read_key") =>
          /\ KeyRight => paging' = PageAfterRight(paging)
          /\ KeyLeft => paging' = PageAfterLeft(paging)
          /\ RightTimes(paging, paging.pages).current_page = paging.current_page
          /\ LeftTimes(paging, paging.pages).current_page = paging.current_page
          /\ PageAfterLeft(PageAfterRight(paging)).current_page
                = paging.current_page
          /\ ScenarioE.active
          /\ RightTimes(ScenarioE, 1).current_page = 1
          /\ RightTimes(ScenarioE, 2).current_page = 0]_vars

\* a page key has put the selection on the first row of the second page:
\* with one entry in the FilteredList no other key sets Selection to 1
C15_Witness ==
    /\ pc = "read_key"
    /\ paging.active
    /\ paging.current_page = 1
    /\ Len(filtered_list) = 1
    /\ default # Some(1)
    /\ sel = Some(1)

\* C16 (as stated): in every state of the loop in Editing mode, whatever
\* the query and the Selection, the arm taken for Enter sets the mode to
\* Normal and the loop goes on without returning.
C16_EditingEnterToNormal ==
    (pc = "read_key" /\ input_mode = "Editing") =>
        LET a == Arm(Special("Enter"))
        IN  a.out = "loop" /\ a.input_mode = "Normal"

\* C17: Escape pressed in Editing mode, no terminal operation failing,
\* sets the mode to Normal; the loop goes on, nothing is returned, and
\* query, cursor and Selection are what they were.
C17_EditingEscapeToNormal ==
    [][(pc = "read_key" /\ input_mode = "Editing" /\ KeyEscape)
       => (/\ pc' = "read_key"
           /\ result' = NoResult
           /\ input_mode' = "Normal"
           /\ search_term' = search_term
           /\ position' = position
           /\ sel' = sel)]_vars

\* back in Normal mode with an edited query and no Selection: Enter does
\* not leave Editing without a Selection, so Escape has
C17_Witness ==
    /\ pc = "read_key"
    /\ input_mode = "Normal"
    /\ sel = None
    /\ search_term # initial_text

\* C18 (as stated): in Editing mode every printable, non-control character
\* key, no terminal operation failing, leaves the loop waiting for the
\* next key with the character inserted into the query at the cursor, the
\* cursor advanced by one, and Selection = Some(0), whatever Selection was.
C18_EditingInsert ==
    [][(pc = "read_key" /\ input_mode = "Editing") =>
          \A c \in PrintableChars :
              (Press(Char(c)) /\ UNCHANGED io_failed) =>
                  /\ pc' = "read_key"
                  /\ search_term' = Insert(search_term, position, c)
                  /\ position' = position + 1
                  /\ sel' = Some(0)]_vars

\* C19 (as stated): with no candidates, interact neither faults nor
\* returns a commit, whatever keys are pressed.
C19_EmptyNeverCommitsOrFaults ==
    items = <<>> =>
        /\ pc # "panicked"
        /\ ~(pc = "returned" /\ result.kind = "Ok" /\ IsSome(result.val))

\* C20: with n entries in the FilteredList, n > 0, the arm of Up, BackTab
\* and, in Normal mode, 'k' takes Selection Some(s) to Some((s - 1) mod n)
\* and None to Some(n - 1); the arm of Down, Tab and, in Normal mode, 'j'
\* takes Some(s) to Some((s + 1) mod n) and None to Some(0).  With n = 0
\* these keys leave Selection as it is.  In each case the loop goes on.
C20_VerticalNavigation ==
    pc = "read_key" =>
        LET n == Len(filtered_list)
            vim(c) == IF input_mode = "Normal" THEN {Char(c)} ELSE {}
            UpKeys == {Special("ArrowUp"), Special("BackTab")} \cup vim("k")
            DownKeys == {Special("ArrowDown"), Special("Tab")} \cup vim("j")
            UpTarget == IF n = 0 THEN sel
                        ELSE IF IsSome(sel) THEN Some((Unwrap(sel) - 1) % n)
                        ELSE Some(n - 1)
            DownTarget == IF n = 0 THEN sel
                          ELSE IF IsSome(sel) THEN Some((Unwrap(sel) + 1) % n)
                          ELSE Some(0)
        IN  /\ \A key \in UpKeys :
                  Arm(key).out = "loop" /\ Arm(key).sel = UpTarget
            /\ \A key \in DownKeys :
                  Arm(key).out = "loop" /\ Arm(key).sel = DownTarget

\* Up has taken an absent Selection to the last of two entries
C20_Witness ==
    /\ pc = "read_key"
    /\ default = None
    /\ search_term = initial_text
    /\ Len(filtered_list) = 2
    /\ sel = Some(1)

-----------------------------------------------------------------------------
(* Page keys, mode gating, erase accounting, cursor, mode of a new call *)

\* C21 (as stated): after a next-page key (Right, or 'l' in Normal mode)
\* handled while paging is active, no terminal operation failing, the
\* Selection of the next frame is Some(current_page * capacity), the first
\* row of the new current page, and that index is a position of the
\* FilteredList of that frame.
C21_NextPageSelectsFirst ==
    [][(/\ pc = "read_key"
        /\ paging.active
        /\ \/ KeyRight
           \/ input_mode = "Normal" /\ Press(Char("l")) /\ UNCHANGED io_failed)
       => (/\ pc' = "read_key"
           /\ sel' = Some(paging'.current_page * paging'.capacity)
           /\ Unwrap(sel') < Len(filtered_list'))]_vars

\* C22 (as stated): in every frame, paging is active exactly when the
\* FilteredList of the frame has more entries than the page capacity.
C22_ActiveFollowsFilteredList ==
    pc = "read_key" =>
        (paging.active <=> Len(filtered_list) > paging.capacity)

\* C23: in every state of the loop, ArrowUp, BackTab, ArrowDown and Tab
\* move the Selection and ArrowLeft and ArrowRight turn the page in both
\* modes; 'k', 'j', 'h', 'l' do what Up, Down, Left, Right do in Normal
\* mode, and in Editing mode are inserted into the query at the cursor
\* like any other text; in Normal mode no key at all changes the query or
\* the cursor.
C23_ModeGating ==
    pc = "read_key" =>
        LET n == Len(filtered_list)
            normal == input_mode = "Normal"
            Up == Arm(Special("ArrowUp"))
            Down == Arm(Special("ArrowDown"))
            Left == Arm(Special("ArrowLeft"))
            Right == Arm(Special("ArrowRight"))
        IN  /\ Arm(Special("BackTab")) = Up
            /\ Arm(Special("Tab")) = Down
            /\ n > 0 =>
                  /\ Up.sel = IF IsSome(sel) THEN Some((Unwrap(sel) - 1 + n) % n)
                                              ELSE Some(n - 1)
                  /\ Down.sel = IF IsSome(sel) THEN Some((Unwrap(sel) + 1) % n)
                                                ELSE Some(0)
            /\ paging.active =>
                  /\ Left.paging.current_page
                        = (paging.current_page - 1 + paging.pages) % paging.pages
                  /\ Right.paging.current_page
                        = (paging.current_page + 1) % paging.pages
            /\ normal =>
                  /\ Arm(Char("k")) = Up
                  /\ Arm(Char("j")) = Down
                  /\ Arm(Char("h")) = Left
                  /\ Arm(Char("l")) = Right
                  /\ \A key \in Keys :
                        /\ Arm(key).search_term = search_term
                        /\ Arm(key).position = position
            /\ ~normal =>
                  \A c \in {"k", "j", "h", "l"} :
                      LET a == Arm(Char(c))
                      IN  /\ a.out = "loop"
                          /\ a.search_term = Insert(search_term, position, c)
                          /\ a.position = position + 1
                          /\ a.paging = paging

\* 'k' typed in Editing mode is the query
C23_Witness ==
    /\ pc = "read_key"
    /\ input_mode = "Editing"
    /\ initial_text = <<>>
    /\ search_term = <<"k">>
    /\ position = 1

\* C24 (as stated): every item rendered in a frame, its title L columns
\* wide on a terminal of TermCols columns, is counted by the erase step
\* with ceil((L + 2) / TermCols) rows: the one row write_formatted_line
\* adds to height plus what clear_preserve_prompt adds for that title.
C24_WrappedRowsCounted ==
    pc = "read_key" =>
        \A p \in Visible(paging, filtered_list) :
            LET L == Len(items[filtered_list[p + 1] + 1])
            IN  1 + OverflowRows(<<L>>, 1) = CeilDiv(L + 2, TermCols)

\* C25 (as stated): the cursor never passes the end of the query, and
\* Backspace in Editing mode, no terminal operation failing, leaves the
\* loop waiting for the next key: with the cursor past 0 the character just
\* before the cursor is gone from the query and the cursor is one less,
\* with the cursor at 0 query and cursor are what they were.
C25_BackspaceAndCursor ==
    [][(pc = "read_key" /\ input_mode = "Editing" /\ KeyBackspace)
       => (/\ position <= ByteLen(search_term)
           /\ pc' = "read_key"
           /\ position' <= ByteLen(search_term')
           /\ IF position > 0
              THEN LET k == CharsBefore(search_term, position)
                   IN  /\ search_term' = SubSeq(search_term, 1, k - 1)
                                           \o SubSeq(search_term, k + 1,
                                                      Len(search_term))
                       /\ position' = position - 1
              ELSE search_term' = search_term /\ position' = 0)]_vars

\* C26 (as stated): every call of interact on a widget comes to its first
\* frame in Normal mode, whatever the earlier calls on the widget did.
C26_InteractStartsNormal ==
    [][(pc \in {"idle", "returned"} /\ pc' = "read_key")
       => input_mode' = "Normal"]_vars

====
